---- MODULE Spec2Model ----
(***************************************************************************)
(* Financial_API: ingestion and scheduling engine.                         *)
(*   PriceService     - quote fetch, asset registry, price store, batch    *)
(*                      historical load (src/src/services/PriceService.ts) *)
(*   SchedulerService - cron jobs, daily close driver, start/stop          *)
(*                      (src/src/services/SchedulerService.ts)             *)
(* Every await of the source is a step boundary: the other tasks of the    *)
(* event loop, the storage and the clock may act between two steps.        *)
(***************************************************************************)
EXTENDS Integers, Sequences, FiniteSets, TLC

\* ------------------------------------------------------------------ bounds
MaxLen == 2        \* longest symbol list handed to loadBulkHistoricalData
MaxPoints == 2     \* longest raw historical series the provider returns
MaxElapsed == 2    \* seconds of wall-clock time the model lets pass
MaxDirect == 2     \* direct ensureAssetExists calls of the bulk driver
MaxStarts == 2     \* start() calls on the scheduler
MaxStops == 1      \* stop() calls on the scheduler
MaxTicks == 1      \* times the market-close schedule comes round
MaxManual == 2     \* runDailyCloseNow() calls
MaxRuns == 2       \* executeDailyClose runs that exist at once
MaxStocks == 3     \* symbols of the curated list of load-stocks.js the model keeps
batchSize == 2     \* symbols per registration batch (10 in the script, for its 70 symbols)
dataBatchSize == 1 \* symbols per historical batch (5 in the script, for its 70 symbols)
MaxRegistered == 4 \* Assets in storage when the manual daily close script starts
MaxDriverElapsed == 8  \* seconds of wall-clock time a manual driver script is followed for

\* --------------------------------------------------------- program constants
PacingDelay == 1   \* setTimeout(resolve, 1000), in seconds
RegistrationPause == 1 \* load-stocks.js: setTimeout(resolve, 1000) between registration batches
BatchPause == 3        \* load-stocks.js: setTimeout(resolve, 3000) between historical batches
closeBatchSize == 3    \* load-daily-close.js: const batchSize = 3
CloseBatchPause == 2   \* load-daily-close.js: setTimeout(resolve, 2000), in seconds

\* ------------------------------------------------------------------ values
\* JavaScript null in a numeric array of the provider
Null == -1

Symbols == {"AAPL", "aapl"}

\* String.prototype.toUpperCase over the symbols of the model
toUpperCase(s) == IF s = "aapl" THEN "AAPL" ELSE s

RECURSIVE SeqsUpTo(_, _)
SeqsUpTo(S, n) ==
    IF n = 0 THEN {<<>>}
    ELSE LET shorter == SeqsUpTo(S, n - 1)
         IN  shorter \cup {Append(q, x) : q \in {r \in shorter : Len(r) = n - 1}, x \in S}

SymbolLists == SeqsUpTo(Symbols, MaxLen)

\* the head of the curated list of scripts/load-stocks.js
StockUniverse == <<"AAPL", "MSFT", "GOOGL", "AMZN", "META", "TSLA", "NVDA">>

allStocks == SubSeq(StockUniverse, 1, MaxStocks)

\* the symbols of the model in the order of orderBy: {symbol: 'asc'}
SymbolOrder == <<"AAPL", "AMZN", "GOOGL", "META", "MSFT", "NVDA", "TSLA", "aapl">>

\* the clock starts after the newest historical timestamp
StartTime == MaxPoints + 1
MaxTime == StartTime + MaxElapsed

\* ------------------------------------------------------- provider responses
\* YahooChartResult: parallel arrays, a null open marks a non-trading period
OpenValues == {Null, 10, 20}

Timestamps(n) == [i \in 1..n |-> i]

ChartResult(opens) ==
    [timestamp |-> Timestamps(Len(opens)),
     quote |-> [open   |-> opens,
                high   |-> opens,
                low    |-> opens,
                close  |-> opens,
                volume |-> [i \in 1..Len(opens) |-> IF opens[i] = Null THEN Null ELSE 100]]]

\* what axios.get resolves or rejects with for a chart request with a range
HistoricalResponses ==
    {[kind |-> "error"], [kind |-> "empty"]}
        \cup {[kind |-> "result", result |-> ChartResult(o)] : o \in SeqsUpTo(OpenValues, MaxPoints)}

\* no response is being processed
NoChart == ChartResult(<<>>)

\* YahooChartResult.meta of a quote snapshot
Metas ==
    {[regularMarketPrice |-> 10, regularMarketDayHigh |-> 12, regularMarketDayLow |-> 8,
      regularMarketVolume |-> 100],
     [regularMarketPrice |-> 0, regularMarketDayHigh |-> 0, regularMarketDayLow |-> 0,
      regularMarketVolume |-> 0]}

DailyResponses ==
    {[kind |-> "error"], [kind |-> "empty"]} \cup {[kind |-> "result", meta |-> m] : m \in Metas}

\* ------------------------------------------------------ dateRangeConfigs
MaxLookups == 2    \* range-key lookups the model follows

\* private readonly dateRangeConfigs: Record<string, DateRangeConfig> = {...}
dateRangeConfigs ==
    [k \in {"1d", "5d", "1mo", "3mo", "6mo", "1y", "2y", "5y", "10y", "max"} |->
        CASE k = "1d"  -> [range |-> "1d",  interval |-> "15m"]
          [] k = "5d"  -> [range |-> "5d",  interval |-> "1d"]
          [] k = "1mo" -> [range |-> "1mo", interval |-> "1d"]
          [] k = "3mo" -> [range |-> "3mo", interval |-> "1d"]
          [] k = "6mo" -> [range |-> "6mo", interval |-> "1d"]
          [] k = "1y"  -> [range |-> "1y",  interval |-> "1d"]
          [] k = "2y"  -> [range |-> "2y",  interval |-> "1d"]
          [] k = "5y"  -> [range |-> "5y",  interval |-> "1wk"]
          [] k = "10y" -> [range |-> "10y", interval |-> "1mo"]
          [] k = "max" -> [range |-> "max", interval |-> "1mo"]]

\* the table is an object literal: a property read that finds no own property goes on to
\* Object.prototype, whose members (functions, all truthy) carry no range or interval
ObjectPrototype == {"constructor", "toString", "hasOwnProperty"}

\* the strings a caller may pass as rangeKey: the keys of the table, keys that name
\* nothing, and names of members every object inherits
RangeKeys == DOMAIN dateRangeConfigs \cup {"7d", ""} \cup ObjectPrototype

Undefined == [undefined |-> TRUE]

\* this.dateRangeConfigs[rangeKey]: own property, else inherited member, else undefined
Get(table, key) ==
    IF key \in DOMAIN table THEN table[key]
    ELSE IF key \in ObjectPrototype THEN [inherited |-> key]
    ELSE Undefined

\* a || b
Or(a, b) == IF a # Undefined THEN a ELSE b

\* getDateRangeConfig(rangeKey): this.dateRangeConfigs[rangeKey] || this.dateRangeConfigs['1mo']
getDateRangeConfig(rangeKey) ==
    Or(Get(dateRangeConfigs, rangeKey), Get(dateRangeConfigs, "1mo"))

\* `${config.range}` in the template string of the URL: a missing property reads undefined
Interpolate(config, field) == IF field \in DOMAIN config THEN config[field] ELSE "undefined"

\* getHistoricalPrices: the query string of the request, ?range=..&interval=..
Query(symbol, rangeKey) ==
    LET config == Or(Get(dateRangeConfigs, rangeKey), Get(dateRangeConfigs, "1mo"))
    IN  [symbol |-> symbol, range |-> Interpolate(config, "range"),
         interval |-> Interpolate(config, "interval")]

NoQuery == [symbol |-> "", range |-> "", interval |-> ""]

\* ------------------------------------------------------------------ state
VARIABLES
    assets,          \* table Asset: set of rows [id, symbol, name, type]
    prices,          \* table Price: set of rows [id, date, open, high, low, close, volume, assetId]
    now,             \* wall clock, seconds
    lastWrite,       \* what the last Price write did, until its caller's iteration ends
    returned,        \* the (symbol, asset) pairs ensureAssetExists has resolved with
    \* loadBulkHistoricalData
    bulkPc, bulkSymbols, bulkIdx, results, historicalData, bulkAsset, bulkTimer,
    chartResult,     \* data.chart.result[0] of the response being processed
    fetchLog,        \* the requests of the batch: [symbol, kind of response, result set]
    fetchTimes,      \* the instants of the last two requests of the batch
    directCalls,
    lookups,         \* the range-key lookups made so far: [op, rangeKey, config, query]
    loader,          \* loadAllStocks of scripts/load-stocks.js: [pc, i, k, timer, ensured, outcomes, results, summary]
    \* SchedulerService
    sched,           \* ScheduleState: [isRunning, closeJobs, liveJobs], the cron tasks registered
    runs,            \* the executeDailyClose invocations, by slot
    startCalls, stopCalls, closeTicks, manualRuns,
    lastCloseFirings, lastLiveFirings

storageVars == <<assets, prices, lastWrite, returned>>
bulkVars == <<bulkPc, bulkSymbols, bulkIdx, results, historicalData, bulkAsset, bulkTimer,
              chartResult, fetchLog, fetchTimes>>
schedVars == <<sched, startCalls, stopCalls, closeTicks, manualRuns, lastCloseFirings,
               lastLiveFirings>>
vars == <<assets, prices, now, lastWrite, returned, bulkPc, bulkSymbols, bulkIdx, results,
          historicalData, bulkAsset, bulkTimer, chartResult, fetchLog, fetchTimes, directCalls, lookups, loader,
          sched, runs,
          startCalls,
          stopCalls, closeTicks, manualRuns, lastCloseFirings, lastLiveFirings>>

\* ---------------------------------------------------------------- storage
NoWrite == [op |-> "none", inserted |-> 0]

\* the row prisma.asset.upsert creates
NewAsset(as, symbol) ==
    [id |-> Cardinality(as) + 1, symbol |-> symbol, name |-> symbol, type |-> "STOCK"]

\* a registration that inserts without looking the symbol up
ensureAssetExists_AlwaysCreate(as, symbol) == as \cup {NewAsset(as, symbol)}

\* prisma.asset.upsert({where: {symbol}, update: {}, create: {...}}): one atomic statement
ensureAssetExists(as, symbol) ==
    IF \E a \in as : a.symbol = symbol THEN as ELSE as \cup {NewAsset(as, symbol)}

\* the row the upsert resolves with
AssetOf(as, symbol) == CHOOSE a \in as : a.symbol = symbol

\* the unique key of a Price row
PriceKey(p) == <<p.assetId, p.date>>

\* Price.id: an identity no other row has; no code reads it
WithId(ps, r) ==
    [id |-> <<r.assetId, r.date, Cardinality({p \in ps : PriceKey(p) = PriceKey(r)})>>] @@ r

\* a bulk write that overwrites the stored row of an (asset, date) it meets
RECURSIVE createMany_Overwrite(_, _)
createMany_Overwrite(ps, recs) ==
    IF recs = <<>> THEN ps
    ELSE LET r == Head(recs)
             kept == {p \in ps : PriceKey(p) # PriceKey(r)}
         IN  createMany_Overwrite(kept \cup {WithId(kept, r)}, Tail(recs))

\* prisma.price.createMany({data, skipDuplicates: true})
RECURSIVE createMany(_, _)
createMany(ps, recs) ==
    IF recs = <<>> THEN ps
    ELSE LET r == Head(recs)
             next == IF \E p \in ps : PriceKey(p) = PriceKey(r) THEN ps
                     ELSE ps \cup {WithId(ps, r)}
         IN  createMany(next, Tail(recs))

\* prisma.price.create({data}): a unique violation rejects, nothing is written
create(ps, r) ==
    IF \E p \in ps : PriceKey(p) = PriceKey(r) THEN ps ELSE ps \cup {WithId(ps, r)}

\* ------------------------------------------------------ getHistoricalPrices
\* a normalisation that keeps the points with a null open
Normalize_KeepsNulls(result) ==
    [index \in 1..Len(result.timestamp) |->
        [date   |-> result.timestamp[index],
         open   |-> result.quote.open[index],
         high   |-> result.quote.high[index],
         low    |-> result.quote.low[index],
         close  |-> result.quote.close[index],
         volume |-> result.quote.volume[index]]]

\* timestamps.map((timestamp, index) => ({...})).filter(item => item.open !== null)
Normalize(result) ==
    LET quotes == result.quote
        zipped == [index \in 1..Len(result.timestamp) |->
                     [date   |-> result.timestamp[index],
                      open   |-> quotes.open[index],
                      high   |-> quotes.high[index],
                      low    |-> quotes.low[index],
                      close  |-> quotes.close[index],
                      volume |-> quotes.volume[index]]]
        NotNullOpen(item) == item.open # Null
    IN  SelectSeq(zipped, NotNullOpen)

\* throw new Error(`Fallo al obtener precios históricos para ${symbol}`)
HistoricalFailure(symbol, cause) == <<"Fallo al obtener precios historicos para", symbol>>

\* an outcome that counts the rows the write can add: the points whose date is not stored
Success_CountsNewRows(symbol, data) ==
    [symbol |-> symbol, status |-> "success",
     records |-> Cardinality({i \in 1..Len(data) : ~ \E p \in prices : p.date = data[i].date})]

\* results.push({symbol, records: historicalData.length, status: 'success'})
Success(symbol, data) == [symbol |-> symbol, status |-> "success", records |-> Len(data)]

\* a catch clause that records nothing for the symbol
catchSymbol_Dropped(as, rs, idx, symbol, message) ==
    [assets |-> as, results |-> rs, bulkIdx |-> idx + 1, bulkPc |-> "loop"]

\* a catch clause that rethrows: the batch rejects
catchSymbol_Rethrow(as, rs, idx, symbol, message) ==
    [assets |-> as, results |-> rs, bulkIdx |-> idx, bulkPc |-> "rejected"]

\* a catch clause that registers the symbol it failed on
catchSymbol_Registers(as, rs, idx, symbol, message) ==
    [assets |-> ensureAssetExists(as, symbol),
     results |-> Append(rs, [symbol |-> symbol, status |-> "failed", error |-> message]),
     bulkIdx |-> idx + 1, bulkPc |-> "loop"]

\* the catch of the loop body: results.push({symbol, status: 'failed', error: errorMessage}),
\* then the next symbol; the registry is not touched and no timer is started
catchSymbol(as, rs, idx, symbol, message) ==
    [assets |-> as,
     results |-> Append(rs, [symbol |-> symbol, status |-> "failed", error |-> message]),
     bulkIdx |-> idx + 1, bulkPc |-> "loop"]

\* a mapping that leaves the date out: the rows are dated the time of the insert
priceRecords_DateNow(data, asset) ==
    [i \in 1..Len(data) |->
        [date   |-> now,
         open   |-> data[i].open,
         high   |-> data[i].high,
         low    |-> data[i].low,
         close  |-> data[i].close,
         volume |-> data[i].volume,
         assetId |-> asset.id]]

\* historicalData.map(data => ({date: data.date, ..., assetId: asset.id}))
priceRecords(data, asset) ==
    [i \in 1..Len(data) |->
        [date   |-> data[i].date,
         open   |-> data[i].open,
         high   |-> data[i].high,
         low    |-> data[i].low,
         close  |-> data[i].close,
         volume |-> data[i].volume,
         assetId |-> asset.id]]

NoAsset == [id |-> 0, symbol |-> "", name |-> "", type |-> ""]

CurrentSymbol == bulkSymbols[bulkIdx]

\* ------------------------------------------------- loadBulkHistoricalData
\* the call: const results = []; for (const symbol of symbols)
BulkStart(symbols) ==
    /\ bulkPc = "idle"
    /\ bulkSymbols' = symbols
    /\ bulkIdx' = 1
    /\ results' = <<>>
    /\ fetchLog' = <<>>
    /\ fetchTimes' = <<>>
    /\ historicalData' = <<>>
    /\ bulkAsset' = NoAsset
    /\ chartResult' = NoChart
    /\ bulkPc' = "loop"

\* loadBulkHistoricalData called on its own
BulkCall(symbols) ==
    /\ BulkStart(symbols)
    /\ UNCHANGED <<storageVars, now, bulkTimer, directCalls, lookups, loader, schedVars, runs>>

\* a loop that issues a request without awaiting the one in flight
BulkFetch_Eager ==
    /\ bulkPc \in {"loop", "fetching"}
    /\ bulkIdx <= Len(bulkSymbols)
    /\ Len(fetchLog) < MaxLen + 1
    /\ fetchLog' = Append(fetchLog, [symbol |-> CurrentSymbol, kind |-> "pending",
                                   result |-> NoChart])
    /\ fetchTimes' = IF fetchTimes = <<>> THEN <<now>> ELSE <<fetchTimes[Len(fetchTimes)], now>>
    /\ bulkPc' = "fetching"
    /\ UNCHANGED <<storageVars, now, bulkSymbols, bulkIdx, results, historicalData, bulkAsset,
                   bulkTimer, chartResult, directCalls, lookups, loader, schedVars, runs>>

\* loop head with a symbol left: getHistoricalPrices issues axios.get and awaits
BulkFetch ==
    /\ bulkPc = "loop"
    /\ bulkIdx <= Len(bulkSymbols)
    /\ fetchLog' = Append(fetchLog, [symbol |-> CurrentSymbol, kind |-> "pending",
                                   result |-> NoChart])
    /\ fetchTimes' = IF fetchTimes = <<>> THEN <<now>> ELSE <<fetchTimes[Len(fetchTimes)], now>>
    /\ bulkPc' = "fetching"
    /\ UNCHANGED <<storageVars, now, bulkSymbols, bulkIdx, results, historicalData, bulkAsset,
                   bulkTimer, chartResult, directCalls, lookups, loader, schedVars, runs>>

\* the request settles: a rejection or a missing result set throws inside
\* getHistoricalPrices and lands in the catch of the loop body
BulkResponse ==
    /\ bulkPc = "fetching"
    /\ \E resp \in HistoricalResponses :
         /\ fetchLog' = [fetchLog EXCEPT ![Len(fetchLog)].kind = resp.kind,
                                          ![Len(fetchLog)].result =
                                              IF resp.kind = "result" THEN resp.result ELSE NoChart]
         /\ IF resp.kind = "result"
            THEN /\ chartResult' = resp.result
                 /\ historicalData' = Normalize(resp.result)
                 /\ bulkPc' = "ensure"
                 /\ UNCHANGED <<assets, results, bulkIdx>>
            ELSE LET c == catchSymbol(assets, results, bulkIdx, CurrentSymbol,
                                      HistoricalFailure(CurrentSymbol, resp.kind))
                 IN  /\ assets' = c.assets
                     /\ results' = c.results
                     /\ bulkIdx' = c.bulkIdx
                     /\ bulkPc' = c.bulkPc
                     /\ UNCHANGED <<historicalData, chartResult>>
    /\ UNCHANGED <<fetchTimes, prices, lastWrite, returned, now, bulkSymbols, bulkAsset, bulkTimer,
                   directCalls, lookups, loader, schedVars, runs>>

\* getHistoricalPrices returned: push the success outcome and start the pacing timer; the
\* locals of the save and the fetched series are not read again
BulkSucceed ==
    /\ results' = Append(results, Success(CurrentSymbol, historicalData))
    /\ bulkTimer' = now
    /\ bulkPc' = "pacing"
    /\ historicalData' = <<>>
    /\ chartResult' = NoChart
    /\ bulkAsset' = NoAsset

\* a save without its catch: the rejection reaches the catch of the loop body
BulkSaveRejected_Propagates ==
    /\ results' = Append(results, [symbol |-> CurrentSymbol, status |-> "failed",
                                   error |-> HistoricalFailure(CurrentSymbol, "storage")])
    /\ bulkTimer' = now
    /\ bulkPc' = "pacing"
    /\ historicalData' = <<>>
    /\ chartResult' = NoChart
    /\ bulkAsset' = NoAsset

\* the catch of saveHistoricalPricesToDatabase logs the rejection and returns:
\* getHistoricalPrices goes on to return historicalData
BulkSaveRejected == BulkSucceed

\* a save that hands an empty series to createMany
nothingToSave_Never(data) == FALSE

\* saveHistoricalPricesToDatabase: if (historicalData.length === 0) return, after the
\* registration
nothingToSave(data) == Len(data) = 0

\* saveHistoricalPricesToDatabase: await this.ensureAssetExists(symbol); a rejection is
\* swallowed by the catch of the save, an empty series returns after the registration
BulkEnsure ==
    /\ bulkPc = "ensure"
    /\ \E ok \in BOOLEAN :
         IF ok
         THEN /\ assets' = ensureAssetExists(assets, CurrentSymbol)
              /\ returned' = returned \cup {<<CurrentSymbol, AssetOf(assets', CurrentSymbol)>>}
              /\ IF nothingToSave(historicalData)
                 THEN BulkSucceed
                 ELSE /\ bulkAsset' = AssetOf(assets', CurrentSymbol)
                      /\ bulkPc' = "createMany"
                      /\ UNCHANGED <<results, bulkTimer, historicalData, chartResult>>
         ELSE /\ BulkSaveRejected
              /\ UNCHANGED <<assets, returned>>
    /\ UNCHANGED <<fetchTimes, prices, lastWrite, now, bulkSymbols, bulkIdx, fetchLog, directCalls, lookups, loader,
                   schedVars, runs>>

\* saveHistoricalPricesToDatabase: await prisma.price.createMany(...); a rejection is swallowed
BulkCreateMany ==
    /\ bulkPc = "createMany"
    /\ \E ok \in BOOLEAN :
         /\ prices' = IF ok THEN createMany(prices, priceRecords(historicalData, bulkAsset))
                       ELSE prices
         /\ lastWrite' = [op |-> IF ok THEN "createMany" ELSE "createMany rejected",
                           inserted |-> Cardinality(prices') - Cardinality(prices)]
         /\ IF ok THEN BulkSucceed ELSE BulkSaveRejected
    /\ UNCHANGED <<fetchTimes, assets, returned, now, bulkSymbols, bulkIdx, fetchLog, directCalls, lookups, loader,
                   schedVars, runs>>

\* a loop that goes back to the symbol it has just processed
BulkPaceDone_SameSymbol ==
    /\ bulkPc = "pacing"
    /\ now >= bulkTimer + PacingDelay
    /\ bulkTimer' = 0
    /\ bulkPc' = "loop"
    /\ lastWrite' = NoWrite
    /\ UNCHANGED <<fetchTimes, assets, prices, returned, now, bulkSymbols, bulkIdx, results,
                   historicalData, bulkAsset, chartResult, fetchLog, directCalls, lookups, loader,
                   schedVars, runs>>

\* the setTimeout(resolve, 1000) of the try block fires
BulkPaceDone ==
    /\ bulkPc = "pacing"
    /\ now >= bulkTimer + PacingDelay
    /\ bulkIdx' = bulkIdx + 1
    /\ bulkTimer' = 0
    /\ bulkPc' = "loop"
    /\ lastWrite' = NoWrite
    /\ UNCHANGED <<fetchTimes, assets, prices, returned, now, bulkSymbols, results,
                   historicalData, bulkAsset, chartResult, fetchLog, directCalls, lookups, loader, schedVars, runs>>

\* loop exhausted: return results
BulkReturn ==
    /\ bulkPc = "loop"
    /\ bulkIdx > Len(bulkSymbols)
    /\ bulkPc' = "done"
    /\ UNCHANGED <<fetchTimes, storageVars, now, bulkSymbols, bulkIdx, results, historicalData, bulkAsset,
                   bulkTimer, chartResult, fetchLog, directCalls, lookups, loader, schedVars, runs>>

\* ----------------------------------------------------------- bulk driver
\* scripts/load-stocks.js, step 1: await priceService.ensureAssetExists(symbol); a
\* rejection is rethrown by ensureAssetExists and logged by the driver
DirectEnsure(symbol) ==
    /\ directCalls < MaxDirect
    /\ directCalls' = directCalls + 1
    /\ \E ok \in BOOLEAN :
         IF ok
         THEN /\ assets' = ensureAssetExists(assets, symbol)
              /\ returned' = returned \cup {<<symbol, AssetOf(assets', symbol)>>}
         ELSE UNCHANGED <<assets, returned>>
    /\ UNCHANGED <<prices, lastWrite, now, bulkVars, loader, lookups, schedVars, runs>>

\* ------------------------------------------------- loadAllStocks (load-stocks.js)
\* Number.NaN, what 0 / 0 evaluates to
NaN == -1

\* Math.round(a / b) for a >= 0: NaN for 0 / 0, else the nearest integer, halves upwards
\* (a positive a over 0 is Infinity, which no summary meets: no success, no records)
MathRound(a, b) == IF b = 0 THEN NaN ELSE (2 * a + b) \div (2 * b)

\* results.filter(r => r.status === status).length
RECURSIVE CountStatus(_, _)
CountStatus(rs, status) ==
    IF rs = <<>> THEN 0
    ELSE (IF Head(rs).status = status THEN 1 ELSE 0) + CountStatus(Tail(rs), status)

\* results.reduce((sum, r) => sum + (r.records || 0), 0)
RECURSIVE SumRecords(_)
SumRecords(rs) ==
    IF rs = <<>> THEN 0
    ELSE (IF "records" \in DOMAIN Head(rs) THEN Head(rs).records ELSE 0) + SumRecords(Tail(rs))

NoSummary == [stocks |-> 0, successful |-> 0, failed |-> 0, totalRecords |-> 0, average |-> 0]

\* the figures of RESUMEN FINAL DE CARGA MASIVA
Summary(rs) ==
    [stocks |-> Len(allStocks),
     successful |-> CountStatus(rs, "success"),
     failed |-> CountStatus(rs, "failed"),
     totalRecords |-> SumRecords(rs),
     average |-> MathRound(SumRecords(rs), CountStatus(rs, "success"))]

NotLoading ==
    [pc |-> "idle", i |-> 0, k |-> 0, timer |-> 0, ensured |-> 0, outcomes |-> 0,
     results |-> <<>>, summary |-> NoSummary]

Min(a, b) == IF a < b THEN a ELSE b

\* a driver that pauses after every batch, the last one too
moreBatches_Always(i, size) == TRUE

\* if (i + batchSize < allStocks.length): another batch follows the one starting at i
moreBatches(i, size) == i + size < Len(allStocks)

\* allStocks.slice(i, i + size)
slice(i, size) == SubSeq(allStocks, i + 1, Min(i + size, Len(allStocks)))

\* node scripts/load-stocks.js: loadAllStocks() starts with step 1
LoadAllStocks ==
    /\ loader.pc = "idle"
    /\ loader' = [loader EXCEPT !.pc = IF Len(allStocks) > 0 THEN "register" ELSE "load"]
    /\ UNCHANGED <<storageVars, now, bulkVars, directCalls, lookups, schedVars, runs>>

\* step 1, one symbol of the batch: await priceService.ensureAssetExists(symbol), a
\* rejection is logged; after the last symbol of a batch the 1 s pause if a batch follows,
\* else step 2
LoadRegister ==
    /\ loader.pc = "register"
    /\ LET symbol == slice(loader.i, batchSize)[loader.k + 1]
           last == loader.k + 1 = Len(slice(loader.i, batchSize))
       IN  /\ \E ok \in BOOLEAN :
                 IF ok
                 THEN /\ assets' = ensureAssetExists(assets, symbol)
                      /\ returned' = returned \cup {<<symbol, AssetOf(assets', symbol)>>}
                 ELSE UNCHANGED <<assets, returned>>
           /\ loader' =
                 IF ~ last
                 THEN [loader EXCEPT !.k = @ + 1, !.ensured = @ + 1]
                 ELSE IF moreBatches(loader.i, batchSize)
                 THEN [loader EXCEPT !.k = 0, !.ensured = @ + 1, !.timer = now,
                                     !.pc = "registerPause"]
                 ELSE [loader EXCEPT !.k = 0, !.ensured = @ + 1, !.i = 0, !.pc = "load"]
    /\ UNCHANGED <<prices, lastWrite, now, bulkVars, directCalls, lookups, schedVars, runs>>

\* the setTimeout(resolve, 1000) between two registration batches fires
LoadRegisterPauseDone ==
    /\ loader.pc = "registerPause"
    /\ now >= loader.timer + RegistrationPause
    /\ loader' = [loader EXCEPT !.i = @ + batchSize, !.timer = 0, !.pc = "register"]
    /\ UNCHANGED <<storageVars, now, bulkVars, directCalls, lookups, schedVars, runs>>

\* step 2, a batch: await priceService.loadBulkHistoricalData(batch, '5y')
LoadBatch ==
    /\ loader.pc = "load"
    /\ loader.i < Len(allStocks)
    /\ BulkStart(slice(loader.i, dataBatchSize))
    /\ loader' = [loader EXCEPT !.pc = "loading"]
    /\ UNCHANGED <<storageVars, now, bulkTimer, directCalls, lookups, schedVars, runs>>

\* loadBulkHistoricalData settled: results.push(...batchResults) and the 3 s pause if a
\* batch follows; a rejection is logged by the catch of the batch, which skips the pause
LoadBatchSettled ==
    /\ loader.pc = "loading"
    /\ bulkPc \in {"done", "rejected"}
    /\ bulkPc' = "idle"
    /\ loader' =
          IF bulkPc = "rejected"
          THEN [loader EXCEPT !.i = @ + dataBatchSize, !.pc = "load"]
          ELSE IF moreBatches(loader.i, dataBatchSize)
          THEN [loader EXCEPT !.outcomes = @ + Len(results), !.results = @ \o results,
                              !.timer = now, !.pc = "loadPause"]
          ELSE [loader EXCEPT !.outcomes = @ + Len(results), !.results = @ \o results,
                              !.i = @ + dataBatchSize, !.pc = "load"]
    /\ UNCHANGED <<storageVars, now, bulkSymbols, bulkIdx, results, historicalData, bulkAsset,
                   bulkTimer, chartResult, fetchLog, fetchTimes, directCalls, lookups, schedVars, runs>>

\* the setTimeout(resolve, 3000) between two historical batches fires
LoadPauseDone ==
    /\ loader.pc = "loadPause"
    /\ now >= loader.timer + BatchPause
    /\ loader' = [loader EXCEPT !.i = @ + dataBatchSize, !.timer = 0, !.pc = "load"]
    /\ UNCHANGED <<storageVars, now, bulkVars, directCalls, lookups, schedVars, runs>>

\* the batches are exhausted: the summary is logged, the two counts are read
LoadFinished ==
    /\ loader.pc = "load"
    /\ loader.i >= Len(allStocks)
    /\ loader' = [loader EXCEPT !.summary = Summary(loader.results), !.pc = "done"]
    /\ UNCHANGED <<storageVars, now, bulkVars, directCalls, lookups, schedVars, runs>>

\* ---------------------------------------------------------- getDailyPrices
NoPriceData ==
    [symbol |-> "", regularMarketPrice |-> 0, regularMarketDayHigh |-> 0,
     regularMarketDayLow |-> 0, regularMarketVolume |-> 0]

\* const priceData = {symbol: symbol.toUpperCase(), regularMarketPrice: meta..., ...}
\* (previousClose, regularMarketTime and currency are returned and never stored)
PriceData(symbol, meta) ==
    [symbol |-> toUpperCase(symbol),
     regularMarketPrice |-> meta.regularMarketPrice,
     regularMarketDayHigh |-> meta.regularMarketDayHigh,
     regularMarketDayLow |-> meta.regularMarketDayLow,
     regularMarketVolume |-> meta.regularMarketVolume]

\* a daily row whose four prices all come from regularMarketPrice
dailyRecord_PriceOnly(priceData, asset) ==
    [open   |-> priceData.regularMarketPrice,
     high   |-> priceData.regularMarketPrice,
     low    |-> priceData.regularMarketPrice,
     close  |-> priceData.regularMarketPrice,
     volume |-> priceData.regularMarketVolume,
     assetId |-> asset.id]

\* saveDailyPriceToDatabase: the data of prisma.price.create
dailyRecord(priceData, asset) ==
    [open   |-> priceData.regularMarketPrice,
     high   |-> priceData.regularMarketDayHigh,
     low    |-> priceData.regularMarketDayLow,
     close  |-> priceData.regularMarketPrice,
     volume |-> priceData.regularMarketVolume,
     assetId |-> asset.id]

\* Price.date is not given by the daily save: the row is dated the time of the insert
DefaultDate(r, t) == [date |-> t] @@ r

\* ------------------------------------------------------- executeDailyClose
RunIds == 1..MaxRuns

FreeRun ==
    [pc |-> "free", driver |-> "executeDailyClose", symbols |-> <<>>, idx |-> 1,
     processed |-> 0, failed |-> 0, priceData |-> NoPriceData, asset |-> NoAsset, timer |-> 0]

IsFree(r) == runs[r].pc \in {"free", "done"}

FreeSlots == {r \in RunIds : IsFree(r)}

\* the n lowest free slots
RECURSIVE FirstFree(_, _)
FirstFree(free, n) ==
    IF n = 0 \/ free = {} THEN {}
    ELSE LET m == CHOOSE x \in free : \A y \in free : x <= y
         IN  {m} \cup FirstFree(free \ {m}, n - 1)

Started == [FreeRun EXCEPT !.pc = "findMany"]

\* the rows of prisma.asset.findMany({select: {symbol: true}}), in id order
RECURSIVE SymbolsById(_, _)
SymbolsById(as, from) ==
    IF from > Cardinality(as) THEN <<>>
    ELSE <<(CHOOSE a \in as : a.id = from).symbol>> \o SymbolsById(as, from + 1)

\* the rows of prisma.asset.findMany({select: {symbol, id}, orderBy: {symbol: 'asc'}})
SymbolsAscending(as) ==
    LET Stored(s) == \E a \in as : a.symbol = s
    IN  SelectSeq(SymbolOrder, Stored)

\* the symbols a run iterates over: what its driver's findMany returned
symbolsRead(driver, as) ==
    IF driver = "loadDailyClose" THEN SymbolsAscending(as) ELSE SymbolsById(as, 1)

RunSymbol(r) == runs[r].symbols[runs[r].idx]

\* an outer catch that rethrows: executeDailyClose rejects
catchDailyClose_Rethrow(run) == [run EXCEPT !.pc = "raised"]

\* the outer catch of executeDailyClose logs the error; the call resolves
catchDailyClose(run) == [run EXCEPT !.pc = "done"]

\* await this.prisma.asset.findMany(...): a rejection lands in the outer catch, an empty
\* registry returns at once
RunFindMany(r) ==
    /\ runs[r].pc = "findMany"
    /\ \E ok \in BOOLEAN :
         runs' = [runs EXCEPT ![r] =
                    IF ~ ok THEN catchDailyClose(@)
                    ELSE IF assets = {} THEN [@ EXCEPT !.pc = "done"]
                    ELSE [@ EXCEPT !.symbols = symbolsRead(runs[r].driver, assets), !.pc = "loop"]]
    /\ UNCHANGED <<storageVars, now, bulkVars, directCalls, lookups, loader, schedVars>>

\* loop head with a symbol left: getDailyPrices issues axios.get and awaits
RunFetch(r) ==
    /\ runs[r].pc = "loop"
    /\ runs[r].idx <= Len(runs[r].symbols)
    /\ runs' = [runs EXCEPT ![r].pc = "fetching"]
    /\ UNCHANGED <<storageVars, now, bulkVars, directCalls, lookups, loader, schedVars>>

\* the request settles: a rejection or a missing result set makes getDailyPrices throw,
\* the loop's catch counts the symbol as failed; the pacing timer starts either way
RunResponse(r) ==
    /\ runs[r].pc = "fetching"
    /\ \E resp \in DailyResponses :
         runs' = [runs EXCEPT ![r] =
                    IF resp.kind = "result"
                    THEN [@ EXCEPT !.priceData = PriceData(RunSymbol(r), resp.meta),
                                   !.pc = "ensure"]
                    ELSE [@ EXCEPT !.failed = @ + 1, !.timer = now, !.pc = "pacing"]]
    /\ UNCHANGED <<storageVars, now, bulkVars, directCalls, lookups, loader, schedVars>>

\* getDailyPrices returned priceData: processed++ and the pacing timer starts; the locals
\* of the save and the snapshot are not read again. The script counts a snapshot with a
\* falsy regularMarketPrice as failed: if (result && result.regularMarketPrice)
RunProcessed(run) ==
    IF run.driver = "loadDailyClose" /\ run.priceData.regularMarketPrice = 0
    THEN [run EXCEPT !.failed = @ + 1, !.timer = now, !.pc = "pacing",
                     !.priceData = NoPriceData, !.asset = NoAsset]
    ELSE [run EXCEPT !.processed = @ + 1, !.timer = now, !.pc = "pacing",
                     !.priceData = NoPriceData, !.asset = NoAsset]

\* the catch of saveDailyPriceToDatabase logs the rejection and returns: getDailyPrices
\* goes on to return priceData
RunSaveRejected(run) == RunProcessed(run)

\* saveDailyPriceToDatabase: await this.ensureAssetExists(priceData.symbol); a rejection
\* is swallowed by the catch of the save
RunEnsure(r) ==
    /\ runs[r].pc = "ensure"
    /\ \E ok \in BOOLEAN :
         IF ok
         THEN /\ assets' = ensureAssetExists(assets, runs[r].priceData.symbol)
              /\ returned' = returned \cup
                    {<<runs[r].priceData.symbol, AssetOf(assets', runs[r].priceData.symbol)>>}
              /\ runs' = [runs EXCEPT ![r].asset = AssetOf(assets', runs[r].priceData.symbol),
                                      ![r].pc = "create"]
         ELSE /\ runs' = [runs EXCEPT ![r] = RunSaveRejected(@)]
              /\ UNCHANGED <<assets, returned>>
    /\ UNCHANGED <<prices, lastWrite, now, bulkVars, directCalls, lookups, loader, schedVars>>

\* saveDailyPriceToDatabase: await prisma.price.create(...); a rejection is swallowed
RunCreate(r) ==
    /\ runs[r].pc = "create"
    /\ \E ok \in BOOLEAN :
         /\ prices' = IF ok
                       THEN create(prices, DefaultDate(dailyRecord(runs[r].priceData, runs[r].asset), now))
                       ELSE prices
         /\ lastWrite' = [op |-> IF ok THEN "create" ELSE "create rejected",
                           inserted |-> Cardinality(prices') - Cardinality(prices)]
         /\ runs' = [runs EXCEPT ![r] = IF ok THEN RunProcessed(@) ELSE RunSaveRejected(@)]
    /\ UNCHANGED <<assets, returned, now, bulkVars, directCalls, lookups, loader, schedVars>>

\* a script without the pause between batches
batchPauseDue_Never(run) == FALSE

\* load-daily-close.js: if (i + batchSize < assets.length), at the end of a batch of the
\* script; executeDailyClose has no batches
batchPauseDue(run) ==
    /\ run.driver = "loadDailyClose"
    /\ run.idx % closeBatchSize = 0
    /\ run.idx < Len(run.symbols)

\* the setTimeout(resolve, 1000) at the end of the loop body fires; the script, at the end
\* of a batch that is not the last, goes on to its setTimeout(resolve, 2000)
RunPaceDone(r) ==
    /\ runs[r].pc = "pacing"
    /\ now >= runs[r].timer + PacingDelay
    /\ runs' = [runs EXCEPT ![r] =
                  IF batchPauseDue(@)
                  THEN [@ EXCEPT !.idx = @ + 1, !.timer = now, !.pc = "batchPause"]
                  ELSE [@ EXCEPT !.idx = @ + 1, !.timer = 0, !.pc = "loop"]]
    /\ lastWrite' = NoWrite
    /\ UNCHANGED <<assets, prices, returned, now, bulkVars, directCalls, lookups, loader, schedVars>>

\* load-daily-close.js: the setTimeout(resolve, 2000) between two batches fires
RunBatchPauseDone(r) ==
    /\ runs[r].pc = "batchPause"
    /\ now >= runs[r].timer + CloseBatchPause
    /\ runs' = [runs EXCEPT ![r].timer = 0, ![r].pc = "loop"]
    /\ UNCHANGED <<storageVars, now, bulkVars, directCalls, lookups, loader, schedVars>>

\* loop exhausted: the summary is logged and the run returns
RunReturn(r) ==
    /\ runs[r].pc = "loop"
    /\ runs[r].idx > Len(runs[r].symbols)
    /\ runs' = [runs EXCEPT ![r] = [FreeRun EXCEPT !.pc = "done",
                                                   !.driver = runs[r].driver,
                                                   !.symbols = runs[r].symbols,
                                                   !.processed = runs[r].processed,
                                                   !.failed = runs[r].failed]]
    /\ UNCHANGED <<storageVars, now, bulkVars, directCalls, lookups, loader, schedVars>>

\* -------------------------------------------------------- SchedulerService
\* a start() that registers its jobs whatever the running flag says
start_NoGuard(st) ==
    [isRunning |-> TRUE, closeJobs |-> st.closeJobs + 1, liveJobs |-> st.liveJobs + 1]

\* start(): two cron.schedule calls unless isRunning
start(st) ==
    IF st.isRunning THEN st
    ELSE [isRunning |-> TRUE, closeJobs |-> st.closeJobs + 1, liveJobs |-> st.liveJobs + 1]

\* stop(): this.isRunning = false
stop(st) == [st EXCEPT !.isRunning = FALSE]

Start ==
    /\ startCalls < MaxStarts
    /\ startCalls' = startCalls + 1
    /\ sched' = start(sched)
    /\ UNCHANGED <<storageVars, now, bulkVars, directCalls, lookups, loader, runs, stopCalls, closeTicks,
                   manualRuns, lastCloseFirings, lastLiveFirings>>

Stop ==
    /\ stopCalls < MaxStops
    /\ stopCalls' = stopCalls + 1
    /\ sched' = stop(sched)
    /\ UNCHANGED <<storageVars, now, bulkVars, directCalls, lookups, loader, runs, startCalls, closeTicks,
                   manualRuns, lastCloseFirings, lastLiveFirings>>

\* '30 21 * * 1-5' comes round: every registered market-close task calls executeDailyClose
CloseTick ==
    /\ sched.closeJobs >= 1
    /\ closeTicks < MaxTicks
    /\ Cardinality(FreeSlots) >= sched.closeJobs
    /\ closeTicks' = closeTicks + 1
    /\ lastCloseFirings' = sched.closeJobs
    /\ runs' = [r \in RunIds |->
                  IF r \in FirstFree(FreeSlots, sched.closeJobs) THEN Started ELSE runs[r]]
    /\ UNCHANGED <<storageVars, now, bulkVars, directCalls, lookups, loader, sched, startCalls, stopCalls,
                   manualRuns, lastLiveFirings>>

\* '0 * * * *' comes round: every registered health-check task reads the two counts and
\* logs them, or logs the failure of the read; nothing of the state changes
LiveTick ==
    /\ sched.liveJobs >= 1
    /\ lastLiveFirings' = sched.liveJobs
    /\ UNCHANGED <<storageVars, now, bulkVars, directCalls, lookups, loader, sched, runs, startCalls, stopCalls,
                   closeTicks, manualRuns, lastCloseFirings>>

\* GET /api/stats: the two counts are read and sent, or the failure of the read is answered
\* with status 500; nothing of the state changes
GetStats ==
    /\ \E ok \in BOOLEAN : TRUE
    /\ UNCHANGED vars

\* runDailyCloseNow(): await this.executeDailyClose()
RunDailyCloseNow ==
    /\ manualRuns < MaxManual
    /\ FreeSlots # {}
    /\ manualRuns' = manualRuns + 1
    /\ \E r \in FirstFree(FreeSlots, 1) : runs' = [runs EXCEPT ![r] = Started]
    /\ UNCHANGED <<storageVars, now, bulkVars, directCalls, lookups, loader, sched, startCalls, stopCalls,
                   closeTicks, lastCloseFirings, lastLiveFirings>>

\* node scripts/load-daily-close.js: loadDailyClose() starts, in a process of its own
LoadDailyClose ==
    /\ \A r \in RunIds : runs[r].pc = "free"
    /\ runs' = [runs EXCEPT ![1] = [Started EXCEPT !.driver = "loadDailyClose"]]
    /\ UNCHANGED <<storageVars, now, bulkVars, directCalls, lookups, loader, schedVars>>

\* ------------------------------------------------------- range-key lookups
\* priceService.getDateRangeConfig(rangeKey)
GetDateRangeConfig(rangeKey) ==
    /\ Len(lookups) < MaxLookups
    /\ lookups' = Append(lookups, [op |-> "getDateRangeConfig", rangeKey |-> rangeKey,
                                   config |-> getDateRangeConfig(rangeKey), query |-> NoQuery])
    /\ UNCHANGED <<storageVars, now, bulkVars, directCalls, loader, schedVars, runs>>

\* priceService.getHistoricalPrices(symbol, rangeKey), up to the request it issues
GetHistoricalPrices(symbol, rangeKey) ==
    /\ Len(lookups) < MaxLookups
    /\ lookups' = Append(lookups, [op |-> "getHistoricalPrices", rangeKey |-> rangeKey,
                                   config |-> getDateRangeConfig(rangeKey),
                                   query |-> Query(symbol, rangeKey)])
    /\ UNCHANGED <<storageVars, now, bulkVars, directCalls, loader, schedVars, runs>>

\* ------------------------------------------------------------------ clock
Tick ==
    /\ now < MaxTime
    /\ now' = now + 1
    /\ UNCHANGED <<storageVars, bulkVars, directCalls, lookups, loader, schedVars, runs>>

\* a setTimeout of an ingestion run is outstanding
TimerPending ==
    \/ bulkPc = "pacing" /\ now < bulkTimer + PacingDelay
    \/ \E r \in RunIds : runs[r].pc = "pacing" /\ now < runs[r].timer + PacingDelay

\* the clock while a run waits for its setTimeout
TickPending ==
    /\ TimerPending
    /\ now' = now + 1
    /\ UNCHANGED <<storageVars, bulkVars, directCalls, lookups, loader, schedVars, runs>>

\* the clock while a manual driver script runs
TickDriver ==
    /\ now < StartTime + MaxDriverElapsed
    /\ now' = now + 1
    /\ UNCHANGED <<storageVars, bulkVars, directCalls, lookups, loader, schedVars, runs>>

\* ------------------------------------------------------------------ specs
InitStorage ==
    /\ assets = {}
    /\ prices = {}
    /\ lastWrite = NoWrite
    /\ returned = {}
    /\ now = StartTime

InitBulk ==
    /\ bulkPc = "idle"
    /\ bulkSymbols = <<>>
    /\ bulkIdx = 1
    /\ results = <<>>
    /\ historicalData = <<>>
    /\ bulkAsset = NoAsset
    /\ bulkTimer = 0
    /\ chartResult = NoChart
    /\ fetchLog = <<>>
    /\ fetchTimes = <<>>
    /\ directCalls = 0
    /\ loader = NotLoading
    /\ lookups = <<>>

InitSched ==
    /\ sched = [isRunning |-> FALSE, closeJobs |-> 0, liveJobs |-> 0]
    /\ runs = [r \in RunIds |-> FreeRun]
    /\ startCalls = 0
    /\ stopCalls = 0
    /\ closeTicks = 0
    /\ manualRuns = 0
    /\ lastCloseFirings = 0
    /\ lastLiveFirings = 0

Init == InitStorage /\ InitBulk /\ InitSched

\* the Assets an earlier load-stocks.js run has registered
RECURSIVE Registered(_)
Registered(n) ==
    IF n = 0 THEN {} ELSE ensureAssetExists(Registered(n - 1), StockUniverse[n])

\* the manual daily close script starts on a database that holds Assets
InitRegistered ==
    /\ assets = Registered(MaxRegistered)
    /\ prices = {}
    /\ lastWrite = NoWrite
    /\ returned = {}
    /\ now = StartTime
    /\ InitBulk
    /\ InitSched

NextBulk ==
    \/ \E symbols \in SymbolLists : BulkCall(symbols)
    \/ BulkFetch
    \/ BulkResponse
    \/ BulkEnsure
    \/ BulkCreateMany
    \/ BulkPaceDone
    \/ BulkReturn
    \/ Tick

SpecBulk == Init /\ [][NextBulk]_vars

\* the daily close driver alone, invoked by hand
NextDaily ==
    \/ \E symbol \in Symbols : DirectEnsure(symbol)
    \/ RunDailyCloseNow
    \/ \E r \in RunIds : RunFindMany(r)
    \/ \E r \in RunIds : RunFetch(r)
    \/ \E r \in RunIds : RunResponse(r)
    \/ \E r \in RunIds : RunEnsure(r)
    \/ \E r \in RunIds : RunCreate(r)
    \/ \E r \in RunIds : RunPaceDone(r)
    \/ \E r \in RunIds : RunReturn(r)
    \/ Tick

SpecDaily == Init /\ [][NextDaily]_vars

\* the scheduler: the runs are the ones its market-close job starts
NextSched ==
    \/ \E symbol \in Symbols : DirectEnsure(symbol)
    \/ Start
    \/ Stop
    \/ CloseTick
    \/ LiveTick
    \/ \E r \in RunIds : RunFindMany(r)
    \/ \E r \in RunIds : RunFetch(r)
    \/ \E r \in RunIds : RunResponse(r)
    \/ \E r \in RunIds : RunEnsure(r)
    \/ \E r \in RunIds : RunCreate(r)
    \/ \E r \in RunIds : RunPaceDone(r)
    \/ \E r \in RunIds : RunReturn(r)
    \/ Tick

SpecSched == Init /\ [][NextSched]_vars

\* the three callers of ensureAssetExists side by side, each up to the registration of
\* its first symbol, in every interleaving of their awaits
NextRegistry ==
    \/ \E symbol \in Symbols : DirectEnsure(symbol)
    \/ \E symbols \in SymbolLists : BulkCall(symbols)
    \/ BulkFetch
    \/ BulkResponse
    \/ BulkEnsure
    \/ RunDailyCloseNow
    \/ \E r \in RunIds : RunFindMany(r)
    \/ \E r \in RunIds : RunFetch(r)
    \/ \E r \in RunIds : RunResponse(r)
    \/ \E r \in RunIds : RunEnsure(r)

SpecRegistry == Init /\ [][NextRegistry]_vars

\* the scheduler with its manual trigger, never stopped
NextJobs ==
    \/ \E symbol \in Symbols : DirectEnsure(symbol)
    \/ Start
    \/ CloseTick
    \/ LiveTick
    \/ RunDailyCloseNow
    \/ \E r \in RunIds : RunFindMany(r)
    \/ \E r \in RunIds : RunFetch(r)
    \/ \E r \in RunIds : RunResponse(r)
    \/ \E r \in RunIds : RunEnsure(r)
    \/ \E r \in RunIds : RunCreate(r)
    \/ \E r \in RunIds : RunPaceDone(r)
    \/ \E r \in RunIds : RunReturn(r)
    \/ Tick

SpecJobs == Init /\ [][NextJobs]_vars

\* the manual bulk driver, in a process of its own
NextLoader ==
    \/ LoadAllStocks
    \/ LoadRegister
    \/ LoadRegisterPauseDone
    \/ LoadBatch
    \/ BulkFetch
    \/ BulkResponse
    \/ BulkEnsure
    \/ BulkCreateMany
    \/ BulkPaceDone
    \/ BulkReturn
    \/ LoadBatchSettled
    \/ LoadPauseDone
    \/ LoadFinished
    \/ TickDriver

SpecLoader == Init /\ [][NextLoader]_vars

\* one daily close over a filled registry: the manual script, or the driver of the
\* scheduler invoked by hand
NextClose ==
    \/ LoadDailyClose
    \/ (\A r \in RunIds : runs[r].pc = "free") /\ RunDailyCloseNow
    \/ \E r \in RunIds : RunFindMany(r)
    \/ \E r \in RunIds : RunFetch(r)
    \/ \E r \in RunIds : RunResponse(r)
    \/ \E r \in RunIds : RunEnsure(r)
    \/ \E r \in RunIds : RunCreate(r)
    \/ \E r \in RunIds : RunPaceDone(r)
    \/ \E r \in RunIds : RunBatchPauseDone(r)
    \/ \E r \in RunIds : RunReturn(r)
    \/ TickDriver

SpecClose == InitRegistered /\ [][NextClose]_vars

\* the range-key lookups of PriceService, called with any string
NextRange ==
    \/ \E k \in RangeKeys : GetDateRangeConfig(k)
    \/ \E symbol \in Symbols, k \in RangeKeys : GetHistoricalPrices(symbol, k)

SpecRange == Init /\ [][NextRange]_vars

\* one ingestion at a time: a historical batch load, or daily close runs over a registry
\* the bulk driver has filled; the server answers its statistics route and runs its
\* health check meanwhile
NoDailyRun == manualRuns = 0 /\ directCalls = 0
NoBulkLoad == bulkPc = "idle"

NextIngest ==
    \/ NoDailyRun /\ \E symbols \in SymbolLists : BulkCall(symbols)
    \/ NoDailyRun /\ BulkFetch
    \/ NoDailyRun /\ BulkResponse
    \/ NoDailyRun /\ BulkEnsure
    \/ NoDailyRun /\ BulkCreateMany
    \/ NoDailyRun /\ BulkPaceDone
    \/ NoDailyRun /\ BulkReturn
    \/ NoBulkLoad /\ \E symbol \in Symbols : DirectEnsure(symbol)
    \/ NoBulkLoad /\ RunDailyCloseNow
    \/ NoBulkLoad /\ \E r \in RunIds : RunFindMany(r)
    \/ NoBulkLoad /\ \E r \in RunIds : RunFetch(r)
    \/ NoBulkLoad /\ \E r \in RunIds : RunResponse(r)
    \/ NoBulkLoad /\ \E r \in RunIds : RunEnsure(r)
    \/ NoBulkLoad /\ \E r \in RunIds : RunCreate(r)
    \/ NoBulkLoad /\ \E r \in RunIds : RunPaceDone(r)
    \/ NoBulkLoad /\ \E r \in RunIds : RunReturn(r)
    \/ Start
    \/ LiveTick
    \/ GetStats
    \/ Tick

SpecIngest == Init /\ [][NextIngest]_vars

\* an ingestion run, one at a time, whose network and storage calls all settle and whose
\* timers all fire
NextRuns ==
    \/ NoDailyRun /\ \E symbols \in SymbolLists : BulkCall(symbols)
    \/ NoDailyRun /\ BulkFetch
    \/ NoDailyRun /\ BulkResponse
    \/ NoDailyRun /\ BulkEnsure
    \/ NoDailyRun /\ BulkCreateMany
    \/ NoDailyRun /\ BulkPaceDone
    \/ NoDailyRun /\ BulkReturn
    \/ NoBulkLoad /\ \E symbol \in Symbols : DirectEnsure(symbol)
    \/ NoBulkLoad /\ RunDailyCloseNow
    \/ NoBulkLoad /\ \E r \in RunIds : RunFindMany(r)
    \/ NoBulkLoad /\ \E r \in RunIds : RunFetch(r)
    \/ NoBulkLoad /\ \E r \in RunIds : RunResponse(r)
    \/ NoBulkLoad /\ \E r \in RunIds : RunEnsure(r)
    \/ NoBulkLoad /\ \E r \in RunIds : RunCreate(r)
    \/ NoBulkLoad /\ \E r \in RunIds : RunPaceDone(r)
    \/ NoBulkLoad /\ \E r \in RunIds : RunReturn(r)
    \/ TickPending

FairRuns ==
    /\ WF_vars(NoDailyRun /\ BulkFetch)
    /\ WF_vars(NoDailyRun /\ BulkResponse)
    /\ WF_vars(NoDailyRun /\ BulkEnsure)
    /\ WF_vars(NoDailyRun /\ BulkCreateMany)
    /\ WF_vars(NoDailyRun /\ BulkPaceDone)
    /\ WF_vars(NoDailyRun /\ BulkReturn)
    /\ \A r \in RunIds : WF_vars(NoBulkLoad /\ RunFindMany(r))
    /\ \A r \in RunIds : WF_vars(NoBulkLoad /\ RunFetch(r))
    /\ \A r \in RunIds : WF_vars(NoBulkLoad /\ RunResponse(r))
    /\ \A r \in RunIds : WF_vars(NoBulkLoad /\ RunEnsure(r))
    /\ \A r \in RunIds : WF_vars(NoBulkLoad /\ RunCreate(r))
    /\ \A r \in RunIds : WF_vars(NoBulkLoad /\ RunPaceDone(r))
    /\ \A r \in RunIds : WF_vars(NoBulkLoad /\ RunReturn(r))
    /\ WF_vars(TickPending)

SpecRuns == Init /\ [][NextRuns]_vars /\ FairRuns

\* ================================================================== claims
Outcome(i) == results[i]

\* the calendar day of a time in seconds
SecondsPerDay == 24 * 60 * 60
DayOf(t) == t \div SecondsPerDay

\* C1: loadBulkHistoricalData produces one outcome per input symbol, in input order, each
\* tagged 'success' or 'failed': while the batch runs the outcomes are those of the symbols
\* already processed, and when it returns there is exactly one per symbol.
C1_OneOutcomePerSymbol ==
    /\ Len(results) <= Len(bulkSymbols)
    /\ \A i \in 1..Len(results) :
         /\ Outcome(i).symbol = bulkSymbols[i]
         /\ Outcome(i).status \in {"success", "failed"}
    /\ bulkPc \in {"loop", "fetching", "ensure", "createMany"} => Len(results) = bulkIdx - 1
    /\ bulkPc = "pacing" => Len(results) = bulkIdx
    /\ bulkPc = "done" => Len(results) = Len(bulkSymbols)

C1_Witness ==
    /\ bulkPc = "done"
    /\ Len(bulkSymbols) = 2
    /\ Outcome(1).status = "failed"
    /\ Outcome(2).status = "success"

\* C2: a failure on a symbol is recorded as 'failed' at the symbol boundary: the batch never
\* rejects, and once it has returned every symbol after a failed one has been fetched and
\* has its own outcome.
C2_FailureDoesNotStopBatch ==
    /\ bulkPc # "rejected"
    /\ bulkPc = "done" =>
         \A i \in 1..Len(results) :
            Outcome(i).status = "failed" =>
               \A j \in (i + 1)..Len(bulkSymbols) :
                  /\ j <= Len(fetchLog)
                  /\ fetchLog[j].symbol = bulkSymbols[j]
                  /\ fetchLog[j].kind # "pending"
                  /\ j <= Len(results)

C2_Witness ==
    /\ bulkPc = "done"
    /\ Len(results) = 2
    /\ Outcome(1).status = "failed"
    /\ Outcome(2).status = "failed"
    /\ Len(fetchLog) = 2

PriceKeysUnique == \A p, q \in prices : PriceKey(p) = PriceKey(q) => p = q

C4_OneDailyRowPerDate ==
    \A p, q \in prices : (p.assetId = q.assetId /\ DayOf(p.date) = DayOf(q.date)) => p = q

\* C5: however the ensureAssetExists calls of the bulk driver, the historical save and the
\* daily save interleave, storage holds at most one Asset per symbol, and every call that
\* resolved for a symbol resolved with the one Asset stored for it.
C5_OneAssetPerSymbol ==
    /\ \A a, b \in assets : a.symbol = b.symbol => a = b
    /\ \A c \in returned : {a \in assets : a.symbol = c[1]} = {c[2]}
    /\ \A c, d \in returned : c[1] = d[1] => c[2].id = d[2].id

\* the driver, the historical save and a daily save have all registered AAPL
C5_Witness ==
    /\ directCalls = 2
    /\ bulkAsset.symbol = "AAPL"
    /\ \E r \in RunIds : runs[r].asset.symbol = "AAPL"
    /\ <<"AAPL", bulkAsset>> \in returned
    /\ Cardinality(assets) = 2

\* C6: between two consecutive fetches of a batch at least the pacing delay elapses.
C6_PacingBetweenFetches ==
    Len(fetchTimes) = 2 => fetchTimes[2] - fetchTimes[1] >= PacingDelay

\* C7: start() while RUNNING changes nothing of the ScheduleState, and as long as stop() has
\* not been called every tick of a schedule fires at most one job of its kind.
C7_StartWhileRunningIsNoOp ==
    [][/\ (startCalls' # startCalls /\ sched.isRunning) => sched' = sched
       /\ stopCalls' = 0 => (lastCloseFirings' <= 1 /\ lastLiveFirings' <= 1)]_vars

C7_Witness ==
    /\ startCalls = 2
    /\ stopCalls = 0
    /\ sched = [isRunning |-> TRUE, closeJobs |-> 1, liveJobs |-> 1]
    /\ lastCloseFirings = 1
    /\ lastLiveFirings = 1

\* C8: when the scheduler is not running no job is registered.
C8_StopClearsJobs ==
    ~ sched.isRunning => (sched.closeJobs = 0 /\ sched.liveJobs = 0)

\* C9 as claimed: every row a daily close ingestion writes has open = high = low = close.
C9_AllFourFromPrice ==
    \A p \in prices : p.open = p.high /\ p.high = p.low /\ p.low = p.close

\* C9: the insert of a daily save adds at most one row and changes none; the row has
\* open = close = regularMarketPrice, high = regularMarketDayHigh, low = regularMarketDayLow,
\* belongs to the asset of the symbol and is dated the time of the insert; an insert that is
\* not rejected and meets no row of the same asset and time adds exactly one.
C9_DailyRowFromSnapshot ==
    [][\A r \in RunIds :
         (runs[r].pc = "create" /\ runs'[r].pc # "create") =>
            LET pd == runs[r].priceData
                new == prices' \ prices
            IN  /\ prices \subseteq prices'
                /\ Cardinality(new) <= 1
                /\ \A p \in new :
                     /\ p.open = pd.regularMarketPrice
                     /\ p.close = pd.regularMarketPrice
                     /\ p.high = pd.regularMarketDayHigh
                     /\ p.low = pd.regularMarketDayLow
                     /\ p.volume = pd.regularMarketVolume
                     /\ p.assetId = AssetOf(assets, pd.symbol).id
                     /\ p.date = now
                /\ (/\ lastWrite'.op = "create"
                    /\ ~ \E q \in prices : q.assetId = runs[r].asset.id /\ q.date = now)
                      => Cardinality(new) = 1]_vars

C9_Witness ==
    /\ lastWrite = [op |-> "create", inserted |-> 1]
    /\ \E p \in prices : p.open = 10 /\ p.high = 12 /\ p.low = 8 /\ p.close = 10

\* C10 as claimed: a symbol whose fetch met an empty result set is 'failed' and registered.
C10_RegisteredBeforeFetch ==
    \A i \in 1..Len(results) :
       fetchLog[i].kind = "empty" =>
          /\ Outcome(i).status = "failed"
          /\ \E a \in assets : a.symbol = Outcome(i).symbol

\* C10: registration follows the fetch: a symbol whose fetch met an empty result set is
\* 'failed', the save is reached only after a fetch that returned a result set, and the
\* registry holds an Asset only for symbols a fetch of this batch returned a result set for.
C10_RegisteredAfterFetch ==
    /\ \A i \in 1..Len(results) : fetchLog[i].kind = "empty" => Outcome(i).status = "failed"
    /\ bulkPc \in {"ensure", "createMany"} => fetchLog[bulkIdx].kind = "result"
    /\ \A a \in assets :
          \E i \in 1..Len(fetchLog) : fetchLog[i].symbol = a.symbol /\ fetchLog[i].kind = "result"

\* the batch ended with an empty result set for its only symbol and an empty registry
C10_Witness ==
    /\ bulkPc = "done"
    /\ Len(fetchLog) >= 1
    /\ fetchLog[1].kind = "empty"
    /\ Outcome(1).status = "failed"
    /\ assets = {}

\* the raw points of a series and those of them with a null open
RawPoints(result) == 1..Len(result.timestamp)
NullOpens(result) == {i \in RawPoints(result) : result.quote.open[i] = Null}

\* the rows storage holds for the records of the series being saved
StoredFor(ps, symbol, data) ==
    {p \in ps : /\ \E a \in assets : a.symbol = symbol /\ a.id = p.assetId
                /\ \E j \in 1..Len(data) : data[j].date = p.date}

C12_SaveFailureSwallowed ==
    /\ [](bulkPc # "rejected")
    /\ [][/\ bulkPc = "ensure" => bulkPc' \in {"ensure", "createMany", "pacing"}
          /\ bulkPc = "createMany" => bulkPc' \in {"createMany", "pacing"}
          /\ (bulkPc \in {"ensure", "createMany"} /\ bulkPc' = "pacing") =>
                /\ results' = Append(results, [symbol |-> CurrentSymbol, status |-> "success",
                                               records |-> Len(historicalData)])
                /\ (bulkPc = "ensure" /\ historicalData # <<>>) =>
                      (assets' = assets /\ prices' = prices)
                /\ lastWrite'.op = "createMany rejected" => prices' = prices
          /\ \A r \in RunIds :
                /\ runs[r].pc = "ensure" => runs'[r].pc \in {"ensure", "create", "pacing"}
                /\ runs[r].pc = "create" => runs'[r].pc \in {"create", "pacing"}
                /\ (runs[r].pc \in {"ensure", "create"} /\ runs'[r].pc = "pacing") =>
                      /\ runs'[r].processed = runs[r].processed + 1
                      /\ runs'[r].failed = runs[r].failed
                      /\ runs[r].pc = "ensure" => (assets' = assets /\ prices' = prices)
                      /\ lastWrite'.op = "create rejected" => prices' = prices]_vars

\* a symbol is 'success' with two records and no row is stored: the write was rejected
C12_Witness ==
    /\ lastWrite = [op |-> "createMany rejected", inserted |-> 0]
    /\ Len(results) = 1
    /\ Outcome(1).status = "success"
    /\ Outcome(1).records = 2
    /\ prices = {}

\* C13: the 'failed' outcome of a symbol whose fetch met an empty result set carries an error
\* message different from that of a symbol whose request failed in transport.
C13_ErrorKindsDistinguishable ==
    \A i, j \in 1..Len(results) :
       (fetchLog[i].kind = "empty" /\ fetchLog[j].kind = "error") =>
          Outcome(i).error # Outcome(j).error

RunPcs == {"free", "findMany", "loop", "fetching", "ensure", "create", "pacing", "done"}

\* C14: no failure of the storage query, of a fetch or of a save escapes a run of the
\* daily close: a run never raises, whoever started it, and no step of a job changes the
\* ScheduleState, so a started scheduler stays RUNNING with both jobs registered.
C14_NoFailureEscapes ==
    /\ [](\A r \in RunIds : runs[r].pc \in RunPcs)
    /\ [][/\ sched.isRunning => sched' = sched
          /\ (runs' # runs \/ lastLiveFirings' # lastLiveFirings) =>
                (sched.isRunning => (sched'.closeJobs >= 1 /\ sched'.liveJobs >= 1))]_vars

\* the run of the market-close job met a failed fetch and completed; the scheduler is as
\* start() left it
C14_Witness ==
    /\ sched = [isRunning |-> TRUE, closeJobs |-> 1, liveJobs |-> 1]
    /\ closeTicks = 1
    /\ manualRuns = 0
    /\ lastLiveFirings = 1
    /\ \E r \in RunIds : runs[r].pc = "done" /\ runs[r].failed = 1 /\ runs[r].processed = 0

InProgress == {r \in RunIds : runs[r].pc \notin {"free", "done"}}

\* C16: at most one run of the daily close driver is in progress at any time.
C16_RunsNeverOverlap == Cardinality(InProgress) <= 1

Pending == {i \in 1..Len(fetchLog) : fetchLog[i].kind = "pending"}

\* C15: within a run the symbols are processed one after the other. In a batch load, at
\* most one request is outstanding, it is the one of the current symbol, a fetch or write is
\* in progress only for the symbol after the last outcome, and a fetch starts only when
\* every earlier symbol has its outcome; in a daily close run the symbols before the
\* current one have all been counted, and the current one is counted before its pause.
C15_StrictlySequential ==
    /\ [](/\ Cardinality(Pending) <= 1
          /\ \A i \in Pending : i = Len(fetchLog) /\ bulkPc = "fetching"
          /\ \A i \in 1..Len(fetchLog) : i <= Len(bulkSymbols) /\ fetchLog[i].symbol = bulkSymbols[i]
          /\ bulkPc \in {"fetching", "ensure", "createMany"} =>
                (Len(fetchLog) = Len(results) + 1 /\ bulkIdx = Len(fetchLog))
          /\ bulkPc \in {"loop", "pacing", "done"} => Len(fetchLog) = Len(results)
          /\ \A r \in RunIds :
                /\ runs[r].pc \in {"loop", "fetching", "ensure", "create"} =>
                      runs[r].processed + runs[r].failed = runs[r].idx - 1
                /\ runs[r].pc = "pacing" => runs[r].processed + runs[r].failed = runs[r].idx)
    /\ [][/\ fetchLog' # fetchLog /\ Len(fetchLog') > Len(fetchLog) =>
                (bulkPc = "loop" /\ Len(results) = Len(fetchLog) /\ lastWrite.op = "none")
          /\ \A r \in RunIds :
                (runs[r].pc # "fetching" /\ runs'[r].pc = "fetching") =>
                   (runs[r].pc = "loop" /\ runs[r].processed + runs[r].failed = runs[r].idx - 1)]_vars

\* the request of the second symbol is outstanding and the first symbol has its outcome
C15_Witness ==
    /\ bulkPc = "fetching"
    /\ Len(bulkSymbols) = 2
    /\ Len(results) = 1
    /\ Pending = {2}

\* C17: every stored Asset has an uppercase symbol and no two Assets share a symbol.
C17_SymbolsUppercaseUnique ==
    /\ \A a \in assets : a.symbol = toUpperCase(a.symbol)
    /\ \A a, b \in assets : a.symbol = b.symbol => a = b

\* C20: no step of the subsystem removes or changes a stored Asset or Price row: whatever
\* is stored before a registration, a daily or historical save, a health check or a
\* statistics request is stored, unchanged, after it.
C20_RowsNeverChange ==
    [][/\ assets \subseteq assets'
       /\ prices \subseteq prices'
       /\ \A a \in assets' \ assets : ~ \E b \in assets : b.id = a.id \/ b.symbol = a.symbol
       /\ \A p \in prices' \ prices : ~ \E q \in prices : q.id = p.id \/ PriceKey(q) = PriceKey(p)
       /\ (lastLiveFirings' # lastLiveFirings) => (assets' = assets /\ prices' = prices)]_vars

\* a second historical load of the symbol met the stored row of its date and left it
C20_Witness ==
    /\ lastWrite = [op |-> "createMany", inserted |-> 0]
    /\ Len(results) = 2
    /\ Outcome(2).records = 1
    /\ fetchLog[1].symbol = fetchLog[2].symbol
    /\ lastLiveFirings = 1
    /\ \E p \in prices : prices = {p}

\* C18 as claimed: a daily close driver pauses after each symbol only; it is never in a
\* pause between batches.
C18_NoBatchPause == \A r \in RunIds : runs[r].pc # "batchPause"

\* the symbols counted, as processed or failed, by the runs of slots 1..n
RECURSIVE AttemptedUpTo(_)
AttemptedUpTo(n) ==
    IF n = 0 THEN 0 ELSE runs[n].processed + runs[n].failed + AttemptedUpTo(n - 1)

\* C18: a daily close run reads every symbol the registry holds when it starts, fetches
\* each once in the order read, counts it as processed or failed and then waits 1 second;
\* it ends with processed + failed equal to the number of symbols read and has written at
\* most one row per symbol it has counted. executeDailyClose has no other pause; the manual
\* script waits 2 more seconds after every third symbol that is not the last.
C18_DailyCloseDriver ==
    /\ [](\A r \in RunIds :
            (runs[r].pc = "done" /\ runs[r].symbols # <<>>) =>
               runs[r].processed + runs[r].failed = Len(runs[r].symbols))
    /\ [](Cardinality(prices) <= AttemptedUpTo(MaxRuns))
    /\ [][\A r \in RunIds :
            LET run == runs[r]
                next == runs'[r]
            IN  /\ (run.pc = "findMany" /\ next.pc = "loop") =>
                      /\ {next.symbols[i] : i \in 1..Len(next.symbols)} = {a.symbol : a \in assets}
                      /\ Len(next.symbols) = Cardinality(assets)
                /\ (run.pc # "fetching" /\ next.pc = "fetching") =>
                      (run.pc = "loop" /\ run.idx <= Len(run.symbols) /\ next.idx = run.idx)
                /\ (run.pc # "pacing" /\ next.pc = "pacing") =>
                      (next.timer = now /\ next.processed + next.failed = run.idx)
                /\ (run.pc = "pacing" /\ next.pc # "pacing") =>
                      /\ now >= run.timer + PacingDelay
                      /\ next.idx = run.idx + 1
                      /\ next.pc \in {"loop", "batchPause"}
                      /\ next.pc = "batchPause" <=>
                            /\ run.driver = "loadDailyClose"
                            /\ run.idx % 3 = 0
                            /\ run.idx < Len(run.symbols)
                /\ (run.pc = "batchPause" /\ next.pc # "batchPause") =>
                      (now >= run.timer + 2 /\ next.pc = "loop" /\ next.idx = run.idx)
                /\ (run.pc = "loop" /\ next.pc = "done") => run.idx = Len(run.symbols) + 1]_vars

\* the manual script has gone through four symbols, the pause after the third included
C18_Witness ==
    \E r \in RunIds :
       /\ runs[r].pc = "done"
       /\ runs[r].driver = "loadDailyClose"
       /\ Len(runs[r].symbols) = 4
       /\ runs[r].processed = 3
       /\ runs[r].failed = 1
       /\ Cardinality(prices) = 3

C21_EmptySeriesIsNoOp ==
    [][(bulkPc = "ensure" /\ historicalData = <<>> /\ bulkPc' # "ensure") =>
          (prices' = prices /\ assets' = assets)]_vars

\* C21: saving an empty historical series writes no Price row and issues no write: the
\* save registers the symbol first (unless the registration is rejected, which it
\* swallows) and then returns, so the Price table is unchanged and the Asset table is
\* unchanged except for the symbol's own Asset when it was absent.
C21_EmptySeriesWritesNoPrice ==
    [][(bulkPc = "ensure" /\ historicalData = <<>> /\ bulkPc' # "ensure") =>
          /\ prices' = prices
          /\ lastWrite' = lastWrite
          /\ bulkPc' = "pacing"
          /\ assets' \in {assets, ensureAssetExists(assets, CurrentSymbol)}
          /\ (\E a \in assets : a.symbol = CurrentSymbol) => assets' = assets
          /\ results' = Append(results, Success(CurrentSymbol, <<>>))]_vars

\* the save of an empty series has returned: the symbol, unknown before, is registered,
\* its outcome counts 0 records and no Price row exists
C21_Witness ==
    /\ bulkPc = "pacing"
    /\ Len(results) = 1
    /\ Outcome(1) = Success(bulkSymbols[1], <<>>)
    /\ fetchLog[1].kind = "result"
    /\ \E a \in assets : assets = {a} /\ a.symbol = bulkSymbols[1]
    /\ prices = {}
    /\ directCalls = 0

\* C22: a range key that is not a key of the table selects the 1mo configuration (range
\* 1mo, interval 1d), from getDateRangeConfig and in the query of getHistoricalPrices;
\* a key of the table selects its own pair.
C22_UnknownKeyFallsBack ==
    \A i \in 1..Len(lookups) :
        LET call == lookups[i]
            expected == IF call.rangeKey \in DOMAIN dateRangeConfigs
                        THEN dateRangeConfigs[call.rangeKey]
                        ELSE [range |-> "1mo", interval |-> "1d"]
        IN  /\ call.config = expected
            /\ call.op = "getHistoricalPrices" =>
                   (call.query.range = expected.range /\ call.query.interval = expected.interval)

\* the symbols of a run that have their outcome
Settled(run) == run.processed + run.failed

\* C23: every ingestion run over a finite symbol list completes when its network and
\* storage calls settle: a started loadBulkHistoricalData returns and a started
\* executeDailyClose resolves; on the way each symbol of the list is requested once, in
\* list order, and gets one outcome (success or failed), so that a completed run has
\* exactly one request and one outcome per symbol of its list.
C23_RunsComplete ==
    /\ (bulkPc = "loop") ~> (bulkPc = "done")
    /\ \A r \in RunIds : (runs[r].pc = "findMany") ~> (runs[r].pc = "done")
    /\ [](/\ Len(fetchLog) <= Len(bulkSymbols)
          /\ \A i \in 1..Len(fetchLog) : fetchLog[i].symbol = bulkSymbols[i]
          /\ Len(results) <= Len(fetchLog)
          /\ \A i \in 1..Len(results) :
                Outcome(i).symbol = bulkSymbols[i] /\ Outcome(i).status \in {"success", "failed"}
          /\ bulkPc = "done" =>
                (Len(fetchLog) = Len(bulkSymbols) /\ Len(results) = Len(bulkSymbols))
          /\ \A r \in RunIds :
                /\ Settled(runs[r]) <= Len(runs[r].symbols)
                /\ runs[r].pc \in {"loop", "fetching", "ensure", "create"} =>
                      Settled(runs[r]) = runs[r].idx - 1
                /\ runs[r].pc = "pacing" => Settled(runs[r]) = runs[r].idx
                /\ runs[r].pc = "done" => Settled(runs[r]) = Len(runs[r].symbols))

\* a daily close over two registered symbols has completed: one symbol failed, the
\* other was stored, and each pause was waited out
C23_Witness ==
    /\ runs[1].pc = "done"
    /\ Len(runs[1].symbols) = 2
    /\ runs[1].processed = 1
    /\ runs[1].failed = 1
    /\ prices # {}
    /\ now = StartTime + 2

\* C24: an attempt that ends with the symbol failed (a 'failed' outcome of
\* loadBulkHistoricalData, a symbol counted as failed by a daily close driver) has
\* written no Price row: the step that records the failure leaves the Price table as it
\* was, and with it the rows of the symbol.
C24_FailedWritesNothing ==
    [][/\ (Len(results') = Len(results) + 1 /\ results'[Len(results')].status = "failed") =>
             prices' = prices
       /\ \A r \in RunIds :
             (runs'[r].failed = runs[r].failed + 1) => prices' = prices]_vars

\* the record counts of the 'success' outcomes, added up
RECURSIVE SuccessRecords(_)
SuccessRecords(rs) ==
    IF rs = <<>> THEN 0
    ELSE (IF Head(rs).status = "success" THEN Head(rs).records ELSE 0) + SuccessRecords(Tail(rs))

\* C25: the final summary of the manual bulk driver agrees with the outcomes: successes
\* plus failures is the number of symbols of the list, total records is the sum of the
\* record counts of the 'success' outcomes, and the average is a number for every run,
\* total records over successes (rounded) whenever a symbol succeeded.
C25_SummaryConsistent ==
    loader.pc = "done" =>
        /\ loader.summary.successful + loader.summary.failed = Len(allStocks)
        /\ loader.summary.stocks = Len(allStocks)
        /\ loader.summary.totalRecords = SuccessRecords(loader.results)
        /\ loader.summary.average # NaN
        /\ loader.summary.successful > 0 =>
              /\ 2 * loader.summary.average * loader.summary.successful
                    <= 2 * loader.summary.totalRecords + loader.summary.successful
              /\ 2 * loader.summary.average * loader.summary.successful
                    > 2 * loader.summary.totalRecords - loader.summary.successful

\* the earlier loads of the batch that the load of entry j repeats: same symbol, same
\* result set from the provider, outcome success
FirstLoads(j) ==
    {i \in 1..(j - 1) : /\ bulkSymbols[i] = bulkSymbols[j]
                        /\ fetchLog[i].kind = "result"
                        /\ fetchLog[i].result = fetchLog[j].result}

\* the loop has just pushed a 'success' outcome
SuccessPushed ==
    /\ Len(results') = Len(results) + 1
    /\ results'[Len(results')].status = "success"

\* C26 as claimed: a repeated historical load of a symbol reports the record count of the
\* first load and the number of Price rows does not grow.
C26_RepeatedLoadAddsNoRows ==
    [][(SuccessPushed /\ FirstLoads(Len(results')) # {}) =>
          /\ \A i \in FirstLoads(Len(results')) : results'[Len(results')].records = Outcome(i).records
          /\ Cardinality(prices') = Cardinality(prices)]_vars

\* C26: the record count of a 'success' outcome is the number of normalized points of the
\* result set fetched for the symbol, whatever storage holds and whatever the save did: a
\* repeated load of the symbol reports the count of the first load, and it adds no Price
\* row when the rows of the first load are stored (the first save was not rejected).
C26_RecordsAreFetchedPoints ==
    [][SuccessPushed =>
          LET j == Len(results')
              points == Normalize(fetchLog[j].result)
              stored(i) == \E p \in prices : /\ p.date = points[i].date
                                             /\ \E a \in assets : a.id = p.assetId /\ a.symbol = bulkSymbols[j]
          IN  /\ results'[j].records = Len(points)
              /\ \A i \in FirstLoads(j) : results'[j].records = Outcome(i).records
              /\ Cardinality(prices') - Cardinality(prices) <= results'[j].records
              /\ (\A i \in 1..Len(points) : stored(i)) => prices' = prices]_vars

\* the second load of a symbol fetched the two points of the first load again: it reports
\* 2 records as the first did, and the write inserted nothing
C26_Witness ==
    /\ bulkPc = "pacing"
    /\ Len(results) = 2
    /\ bulkSymbols[1] = bulkSymbols[2]
    /\ fetchLog[1].result = fetchLog[2].result
    /\ Outcome(1) = Outcome(2)
    /\ Outcome(2).records = 2
    /\ lastWrite = [op |-> "createMany", inserted |-> 0]
    /\ Cardinality(prices) = 2

\* C27: whatever start() and stop() calls were made, at most one market-close job and at
\* most one health-check job are registered, and a tick of either schedule runs at most
\* one task: a market-close tick starts at most one daily close run.
C27_AtMostOneJobPerKind ==
    /\ sched.closeJobs <= 1
    /\ sched.liveJobs <= 1
    /\ lastCloseFirings <= 1
    /\ lastLiveFirings <= 1

====
